---- MODULE Spec2Model ----
(***************************************************************************)
(* Model of hgssoauthentication.py: the Mercurial extension that answers   *)
(* HTTP 401 challenges with Negotiate (Kerberos / SSPI) authentication.    *)
(*                                                                         *)
(* Strings are sequences of lexemes: a lexeme is a comma ",", a blank " ", *)
(* or a word without blanks and commas ("Negotiate", "Basic", a token).    *)
(* Byte strings are sequences of integers 0..255, base64 text is a         *)
(* sequence of one-character strings.                                      *)
(***************************************************************************)
EXTENDS Integers, Sequences, FiniteSets, TLC

(* ------------------------------ bounds -------------------------------- *)

\* challenges in one WWW-Authenticate header
MaxChallenges == 2
\* nested http_error_401 invocations (re-entry through self.parent.open)
MaxDepth == 2
\* legs a GSS handshake may require
MaxSteps == 2
\* length of the longest provider output token (beyond one base64 line)
LongTokenLen == 58

(* --------------------------- program constants ------------------------ *)

\* base64.MAXBINSIZE of the imported encodebytes: input bytes per output line
MAXBINSIZE == 57

(* ------------------------- Python string helpers ---------------------- *)

Range(s) == {s[i] : i \in 1..Len(s)}

RECURSIVE lstrip(_)
lstrip(s) == IF s # <<>> /\ Head(s) = " " THEN lstrip(Tail(s)) ELSE s

RECURSIVE rstrip(_)
rstrip(s) ==
  IF s # <<>> /\ s[Len(s)] = " " THEN rstrip(SubSeq(s, 1, Len(s) - 1)) ELSE s

\* str.strip()
strip(s) == rstrip(lstrip(s))

\* str.split(sep): the pieces between the separators, empty pieces kept
RECURSIVE splitAcc(_, _, _)
splitAcc(s, sep, cur) ==
  IF s = <<>> THEN <<cur>>
  ELSE IF Head(s) = sep THEN <<cur>> \o splitAcc(Tail(s), sep, <<>>)
  ELSE splitAcc(Tail(s), sep, Append(cur, Head(s)))

split(s, sep) == splitAcc(s, sep, <<>>)

\* str.split() without argument: the words between runs of whitespace
RECURSIVE splitWsAcc(_, _)
splitWsAcc(s, cur) ==
  IF s = <<>> THEN (IF cur = <<>> THEN <<>> ELSE <<cur>>)
  ELSE IF Head(s) = " "
       THEN (IF cur = <<>> THEN <<>> ELSE <<cur>>) \o splitWsAcc(Tail(s), <<>>)
       ELSE splitWsAcc(Tail(s), Append(cur, Head(s)))

splitWs(s) == splitWsAcc(s, <<>>)

\* [s.strip() for s in header.split(",")]
RECURSIVE stripAll(_)
stripAll(l) == IF l = <<>> THEN <<>> ELSE <<strip(Head(l))>> \o stripAll(Tail(l))

\* headers.get("WWW-Authenticate", ""): an absent header reads as ""
headersGet(headers) == IF headers.present THEN headers.value ELSE <<>>

\* the list comprehension of lines 72 and 143
SupportedSchemes(headers) == stripAll(split(headersGet(headers), ","))

\* 'Negotiate' in supported_schemes: one list element equal to "Negotiate"
NegotiateInNoCheck(schemes) == TRUE
NegotiateIn(schemes) == \E i \in 1..Len(schemes) : schemes[i] = <<"Negotiate">>

(* ------------------------------- base64 ------------------------------- *)

B64Alphabet ==
  << "A","B","C","D","E","F","G","H","I","J","K","L","M","N","O","P",
     "Q","R","S","T","U","V","W","X","Y","Z","a","b","c","d","e","f",
     "g","h","i","j","k","l","m","n","o","p","q","r","s","t","u","v",
     "w","x","y","z","0","1","2","3","4","5","6","7","8","9","+","/" >>

B64Char(v) == B64Alphabet[v + 1]

\* three bytes (or a last group of one or two) to four characters
B64Group(g) ==
  LET b1 == g[1]
      b2 == IF Len(g) >= 2 THEN g[2] ELSE 0
      b3 == IF Len(g) >= 3 THEN g[3] ELSE 0
      n  == b1 * 65536 + b2 * 256 + b3
      c1 == B64Char(n \div 262144)
      c2 == B64Char((n \div 4096) % 64)
      c3 == B64Char((n \div 64) % 64)
      c4 == B64Char(n % 64)
  IN  IF Len(g) >= 3 THEN <<c1, c2, c3, c4>>
      ELSE IF Len(g) = 2 THEN <<c1, c2, c3, "=">>
      ELSE <<c1, c2, "=", "=">>

RECURSIVE B64Core(_)
B64Core(s) ==
  IF s = <<>> THEN <<>>
  ELSE IF Len(s) <= 3 THEN B64Group(s)
  ELSE B64Group(SubSeq(s, 1, 3)) \o B64Core(SubSeq(s, 4, Len(s)))

\* binascii.b2a_base64: one line of base64 ended by a newline
b2a_base64(chunk) == B64Core(chunk) \o <<"\n">>

\* base64.encodebytes: the input cut in MAXBINSIZE pieces, one line each
RECURSIVE encodebytes(_)
encodebytes(s) ==
  IF s = <<>> THEN <<>>
  ELSE IF Len(s) <= MAXBINSIZE THEN b2a_base64(s)
  ELSE b2a_base64(SubSeq(s, 1, MAXBINSIZE))
         \o encodebytes(SubSeq(s, MAXBINSIZE + 1, Len(s)))

\* str.replace("\012", ""): every newline removed
IsNoNewline(c) == c # "\n"
removeNewlines(s) == SelectSeq(s, IsNoNewline)

(* ------------------------------- state -------------------------------- *)

VARIABLES
  pyMajor,       \* sys.version_info.major
  sspiAvail,     \* "from sspi import ClientAuth" succeeds on this platform
  krbAvail,      \* "import kerberos" succeeds on this platform
  globalNames,   \* the module globals set by the platform import
  handlerfuncs,  \* mercurial.url.handlerfuncs
  pc,            \* position of the main thread in the process life
  opener,        \* TRUE once the registered handler has been instantiated
  environ,       \* os.environ: the value of KRB5CCNAME
  cache,         \* the fixed credential cache file: does it hold a valid ticket
  torn,          \* threads whose read of the cache overlapped a rewrite
  ipc,           \* per thread: position inside KerberosAuthHandler.__init__
  ilocal,        \* per thread: locals and observed effects of that __init__
  stack,         \* frames of the running http_error_401 invocations, innermost last
  req,           \* the request object shared by the invocations of one request
  live           \* security contexts obtained for this request and not released

vars == << pyMajor, sspiAvail, krbAvail, globalNames, handlerfuncs, pc, opener,
           environ, cache, torn, ipc, ilocal, stack, req, live >>

procVars == << pyMajor, sspiAvail, krbAvail, globalNames, handlerfuncs >>
initVars == << environ, cache, torn, ipc, ilocal >>
reqVars  == << stack, req, live >>

Threads == {"main", "worker"}

\* the innermost running invocation of http_error_401
Depth == Len(stack)
Top == stack[Depth]
SetTop(f) == stack' = [stack EXCEPT ![Depth] = f]
Running == pc = "request" /\ Depth > 0
At(h, p) == Running /\ Top.handler = h /\ Top.pc = p

\* the ways an invocation ends: return resp, return None, raise, sys.exit(1)
Terminal == {"returned", "not_handled", "raised", "exit"}

\* Python's None, as a string value that no option, token or header equals
None == <<"<None>">>

(* ------------------------- files and environment ---------------------- *)

\* os.geteuid() of the process
geteuid == "1000"

\* "/tmp/krb5cc_%s" % geteuid()
Krb5ccname(euid) == <<"/tmp/krb5cc_", euid>>

\* values KRB5CCNAME may have when the process starts
EnvAtStart == {<<>>, <<"KEYRING:persistent">>}

\* os.path.expanduser: a leading "~" becomes the home directory
expanduser(path) ==
  IF path # <<>> /\ Head(path) = "~" THEN <<"/home/hg">> \o Tail(path) ELSE path

\* values of the options keytab and principal of section [krb]; None: no option
KeytabValues == {<<>>, <<"~", "/hg.keytab">>, <<"/etc/hg.keytab">>}
PrincipalValues == {<<>>, <<"hg@EXAMPLE.ORG">>}

\* Python truth of an option value: None and "" are false
Truthy(v) == v # None /\ v # <<>>

NoLocals ==
  [ hgrcIsFile |-> FALSE, keytab |-> None, principal |-> None,
    keytabIsFile |-> FALSE, krb5ccname |-> None, klist |-> <<>>, kinit |-> <<>>,
    envAtEntry |-> <<>>, effects |-> <<>> ]

(* --------------------- module import and uisetup ---------------------- *)

\* lines 49-60: the platform import
ImportBoth ==
  /\ pc = "import"
  /\ globalNames' = (IF sspiAvail THEN {"ClientAuth", "socket"} ELSE {})
                       \cup (IF krbAvail THEN {"kerberos"} ELSE {})
  /\ pc' = IF sspiAvail \/ krbAvail THEN "uisetup" ELSE "exited"
  /\ UNCHANGED << pyMajor, sspiAvail, krbAvail, handlerfuncs, opener >>
  /\ UNCHANGED << initVars, reqVars >>

Import ==
  /\ pc = "import"
  /\ IF sspiAvail
       THEN /\ globalNames' = {"ClientAuth", "socket"}
            /\ pc' = "uisetup"
       ELSE IF krbAvail
         THEN /\ globalNames' = {"kerberos"}
              /\ pc' = "uisetup"
         ELSE /\ globalNames' = {}
              /\ pc' = "exited"
  /\ UNCHANGED << pyMajor, sspiAvail, krbAvail, handlerfuncs, opener >>
  /\ UNCHANGED << initVars, reqVars >>

\* lines 179-183
uisetup ==
  /\ pc = "uisetup"
  /\ handlerfuncs' =
       handlerfuncs
         \o (IF "ClientAuth" \in globalNames THEN <<"SSPIAuthHandler">> ELSE <<>>)
         \o (IF "kerberos" \in globalNames THEN <<"KerberosAuthHandler">> ELSE <<>>)
  /\ pc' = "ready"
  /\ UNCHANGED << pyMajor, sspiAvail, krbAvail, globalNames, opener >>
  /\ UNCHANGED << initVars, reqVars >>

Registered(h) == \E i \in 1..Len(handlerfuncs) : handlerfuncs[i] = h

(* ------------- KerberosAuthHandler.__init__: ticket provisioning ------ *)

\* thread t is inside klist (reads the cache), inside kinit (rewrites it)
Reading(t) == ipc[t] = "klist_run"
Writing(t) == ipc[t] = "kinit_run"

\* the handshake of the main thread reads the credential cache named by
\* KRB5CCNAME while the security library performs its step
HandshakeReading ==
  At("KerberosAuthHandler", "step_run") /\ environ = Krb5ccname(geteuid)

\* thread t reads the fixed credential cache
ReadsCache(t) == Reading(t) \/ (t = "main" /\ HandshakeReading)

SetLocal(t, l) == ilocal' = [ilocal EXCEPT ![t] = l]
Goto(t, p) == ipc' = [ipc EXCEPT ![t] = p]

\* SSPIAuthHandler.__init__ (lines 68-69): pass
SSPIInit ==
  /\ pc = "ready"
  /\ ~opener
  /\ Registered("SSPIAuthHandler")
  /\ opener' = TRUE
  /\ UNCHANGED << procVars, pc, initVars, reqVars >>

\* the host instantiates KerberosAuthHandler on the main thread (line 103)
InitBegin ==
  /\ pc = "ready"
  /\ Registered("KerberosAuthHandler")
  /\ ipc["main"] = "none"
  /\ pc' = "init"
  /\ Goto("main", "isfile_hgrc")
  /\ SetLocal("main", [NoLocals EXCEPT !.envAtEntry = environ])
  /\ UNCHANGED << procVars, opener, environ, cache, torn, reqVars >>

\* another thread of the host instantiates a second KerberosAuthHandler
WorkerInitBegin ==
  /\ pc \in {"ready", "init", "request"}
  /\ Registered("KerberosAuthHandler")
  /\ ipc["worker"] = "none"
  /\ Goto("worker", "isfile_hgrc")
  /\ SetLocal("worker", [NoLocals EXCEPT !.envAtEntry = environ])
  /\ UNCHANGED << procVars, pc, opener, environ, cache, torn, reqVars >>

\* line 114: isfile(hgrcpath)
IsfileHgrc(t) ==
  /\ ipc[t] = "isfile_hgrc"
  /\ \E b \in BOOLEAN :
       /\ SetLocal(t, [ilocal[t] EXCEPT !.hgrcIsFile = b])
       /\ Goto(t, IF b THEN "read" ELSE "done")
  /\ UNCHANGED << procVars, pc, opener, environ, cache, torn, reqVars >>

\* lines 115-124: read the options keytab and principal of section [krb];
\* hgrc.read raises on a file that is no config file
ReadHgrc(t) ==
  /\ ipc[t] = "read"
  /\ \/ \E k \in KeytabValues \cup {None}, p \in PrincipalValues \cup {None} :
          /\ SetLocal(t, [ilocal[t] EXCEPT
                            !.keytab = IF k = None THEN None ELSE expanduser(k),
                            !.principal = p])
          /\ Goto(t, "check")
     \/ /\ Goto(t, "raised")
        /\ UNCHANGED ilocal
  /\ UNCHANGED << procVars, pc, opener, environ, cache, torn, reqVars >>

\* line 126: keytab and isfile(keytab) and principal
KeytabUsableNoIsfile(keytab, isFile, principal) == Truthy(keytab) /\ Truthy(principal)
KeytabUsable(keytab, isFile, principal) ==
  Truthy(keytab) /\ isFile /\ Truthy(principal)

CheckKeytab(t) ==
  /\ ipc[t] = "check"
  /\ \E b \in BOOLEAN :
       \* isfile(keytab) is evaluated only for a keytab that is set
       /\ (~Truthy(ilocal[t].keytab) => b = FALSE)
       /\ SetLocal(t, [ilocal[t] EXCEPT !.keytabIsFile = b])
       /\ Goto(t, IF KeytabUsable(ilocal[t].keytab, b, ilocal[t].principal)
                    THEN "setenv" ELSE "done")
  /\ UNCHANGED << procVars, pc, opener, environ, cache, torn, reqVars >>

\* lines 129-130
SetEnv(t) ==
  /\ ipc[t] = "setenv"
  /\ LET krb5ccname == Krb5ccname(geteuid) IN
       /\ environ' = krb5ccname
       /\ SetLocal(t, [ilocal[t] EXCEPT
                         !.krb5ccname = krb5ccname,
                         !.effects = Append(@, <<"environ">> \o krb5ccname)])
  /\ Goto(t, "klist")
  /\ UNCHANGED << procVars, pc, opener, cache, torn, reqVars >>

\* line 132: subprocess.run(["/usr/bin/klist", "-c", krb5ccname, "-s"]) starts;
\* it raises when the executable cannot be run, and Python 2 has no
\* subprocess.run at all
KlistBegin(t) ==
  /\ ipc[t] = "klist"
  /\ \/ /\ pyMajor >= 3
        /\ Goto(t, "klist_run")
        /\ SetLocal(t, [ilocal[t] EXCEPT
                          !.effects = Append(@, <<"klist">> \o ilocal[t].krb5ccname)])
        /\ torn' = IF \E u \in Threads \ {t} : Writing(u) THEN torn \cup {t} ELSE torn
     \/ /\ Goto(t, "raised")
        /\ UNCHANGED << ilocal, torn >>
  /\ UNCHANGED << procVars, pc, opener, environ, cache, reqVars >>

\* klist -s ends: status 0 for a valid ticket; a read torn by a concurrent
\* rewrite of the file gives either status
KlistEnd(t) ==
  /\ ipc[t] = "klist_run"
  /\ \E rc \in {0, 1} :
       /\ (t \notin torn => rc = IF cache THEN 0 ELSE 1)
       /\ SetLocal(t, [ilocal[t] EXCEPT !.klist = <<rc>>])
  /\ torn' = torn \ {t}
  /\ Goto(t, "klist_rc")
  /\ UNCHANGED << procVars, pc, opener, environ, cache, reqVars >>

\* line 134: klist.returncode != 0
NeedKinitAlways(returncode) == TRUE
NeedKinit(returncode) == returncode # 0

\* lines 134-136
KlistCheck(t) ==
  /\ ipc[t] = "klist_rc"
  /\ IF NeedKinit(ilocal[t].klist[1])
       THEN /\ SetLocal(t, [ilocal[t] EXCEPT !.effects =
                 Append(@, <<"print", "No valid kerberos ticket found, trying keytab">>)])
            /\ Goto(t, "kinit")
       ELSE /\ Goto(t, "done")
            /\ UNCHANGED ilocal
  /\ UNCHANGED << procVars, pc, opener, environ, cache, torn, reqVars >>

\* line 138: subprocess.run(["/usr/bin/kinit", "-k", "-c", krb5ccname, "-t",
\* keytab, principal]) starts to rewrite the cache
KinitBegin(t) ==
  /\ ipc[t] = "kinit"
  /\ \/ /\ Goto(t, "kinit_run")
        /\ SetLocal(t, [ilocal[t] EXCEPT !.effects =
             Append(@, <<"kinit">> \o ilocal[t].krb5ccname
                          \o ilocal[t].keytab \o ilocal[t].principal)])
        /\ torn' = torn \cup {u \in Threads \ {t} : ReadsCache(u)}
     \/ /\ Goto(t, "raised")
        /\ UNCHANGED << ilocal, torn >>
  /\ UNCHANGED << procVars, pc, opener, environ, cache, reqVars >>

\* kinit ends: status 0 when a ticket was written to the cache
KinitEnd(t) ==
  /\ ipc[t] = "kinit_run"
  /\ \E rc \in {0, 1} :
       /\ SetLocal(t, [ilocal[t] EXCEPT !.kinit = <<rc>>])
       /\ cache' = IF rc = 0 THEN TRUE ELSE cache
  /\ Goto(t, "kinit_rc")
  /\ UNCHANGED << procVars, pc, opener, environ, torn, reqVars >>

\* lines 139-140
KinitCheck(t) ==
  /\ ipc[t] = "kinit_rc"
  /\ SetLocal(t, [ilocal[t] EXCEPT !.effects =
       IF ilocal[t].kinit[1] = 0
         THEN Append(@, <<"print", "Succesfully obtained Kerberos ticket from keytab">>)
         ELSE @])
  /\ Goto(t, "done")
  /\ UNCHANGED << procVars, pc, opener, environ, cache, torn, reqVars >>

\* __init__ returns to (or raises into) the code that instantiated the handler
InitReturn(t) ==
  /\ ipc[t] \in {"done", "raised"}
  /\ Goto(t, "none")
  /\ SetLocal(t, NoLocals)
  /\ IF t = "main"
       THEN /\ pc' = "ready"
            /\ opener' = (opener \/ ipc[t] = "done")
       ELSE UNCHANGED << pc, opener >>
  /\ UNCHANGED << procVars, environ, cache, torn, reqVars >>

\* the ticket in the cache reaches the end of its lifetime
TicketExpires ==
  /\ pc \in {"ready", "init", "request"}
  /\ cache = TRUE
  /\ cache' = FALSE
  /\ UNCHANGED << procVars, pc, opener, environ, torn, ipc, ilocal, reqVars >>

(* ---------------------- inputs of http_error_401 ---------------------- *)

\* one challenge of a WWW-Authenticate header
Challenges ==
  { <<"Negotiate">>, <<"Negotiate", " ", "YIIsrv">>,
    <<"Basic">>, <<"Basic", " ", "realm=hg">> }

\* the separators between two challenges
Separators == { <<",">>, <<",", " ">> }

RECURSIVE Joined(_, _)
Joined(n, sep) ==
  IF n = 1 THEN Challenges
  ELSE {c \o sep \o r : c \in Challenges, r \in Joined(n - 1, sep)}

HeaderValues(max) ==
  {<<>>} \cup UNION {Joined(n, sep) : n \in 1..max, sep \in Separators}

\* the headers of a response: WWW-Authenticate absent, or present with a value
HeadersOf(max) ==
  {[present |-> FALSE, value |-> <<>>]}
    \cup {[present |-> TRUE, value |-> v] : v \in HeaderValues(max)}

\* the headers of a 401 response, and of a final response. A frame keeps a
\* local (headers, supported_schemes, data, response) until its last use.
Headers == HeadersOf(MaxChallenges)
FinalHeaders ==
  {[present |-> FALSE, value |-> <<>>]}
    \cup {[present |-> TRUE, value |-> v] : v \in
            { <<>>, <<"Negotiate">>, <<"Negotiate", " ", "YIIsrv">>,
              <<"Basic", " ", "realm=hg">>,
              <<"Negotiate", " ", "YIIsrv", ",", " ", "Basic", " ", "realm=hg">>,
              <<"Basic", " ", "realm=hg", ",", "Negotiate", " ", "YIIsrv">> }}

\* output tokens of the SSPI provider (out_buf[0].Buffer)
Tokens ==
  { <<>>, <<0>>, <<255, 254>>, <<77, 97, 110>>,
    [i \in 1..MAXBINSIZE |-> 97],
    [i \in 1..LongTokenLen |-> (i * 7) % 256] }

\* results of kerberos.authGSSClientResponse: a base64 string, or None
GssResponses == { <<"YIIclient">>, None }

\* str(v) inside a format string
PyStr(v) == IF v = None THEN <<"None">> ELSE v

NoResp == [code |-> 0, headers |-> [present |-> FALSE, value |-> <<>>]]

NewRequest ==
  [ host |-> <<"hg.example.org", ":", "8443">>,
    Authorization |-> None, unredirected |-> None ]

NewFrame(handler, headers) ==
  [ handler |-> handler, pc |-> "entry", headers |-> headers,
    supported_schemes |-> <<>>, ctx |-> 0, need |-> 0, steps |-> 0,
    data |-> <<>>, response |-> None, resp |-> NoResp,
    server_token |-> None, server_auth_result |-> <<>>,
    exc |-> None, calls |-> <<>> ]

\* the locals of a frame that the rest of the function never reads are dropped

(* ------------------- http_error_401: the scheme check ----------------- *)

\* the host reports a 401 response to the registered handler (lines 71, 142)
Http401 ==
  /\ pc = "ready"
  /\ opener
  /\ stack = <<>>
  /\ \E h \in Headers : stack' = <<NewFrame(handlerfuncs[1], h)>>
  /\ req' = NewRequest
  /\ live' = {}
  /\ pc' = "request"
  /\ UNCHANGED << procVars, opener, initVars >>

\* lines 72 and 143
ParseSchemes ==
  /\ Running
  /\ Top.pc = "entry"
  /\ SetTop([Top EXCEPT !.supported_schemes = SupportedSchemes(Top.headers),
                        !.pc = "check"])
  /\ UNCHANGED << procVars, pc, opener, initVars, req, live >>

\* lines 75-77 and 146-148; past the check the function does not read
\* headers again
SchemeCheck ==
  /\ Running
  /\ Top.pc = "check"
  /\ IF ~NegotiateIn(Top.supported_schemes)
       THEN SetTop([Top EXCEPT
              !.calls = Append(@, <<"print", "Server does not support Kerberos authentication">>),
              !.pc = "not_handled"])
       ELSE SetTop([Top EXCEPT
              !.headers = NoResp.headers,
              !.pc = IF Top.handler = "SSPIAuthHandler" THEN "ClientAuth"
                     ELSE "authGSSClientInit"])
  /\ UNCHANGED << procVars, pc, opener, initVars, req, live >>

(* -------------------- self.parent.open(req) --------------------------- *)

\* the resubmission returned resp to frame f
OpenReturns(f, resp) ==
  [f EXCEPT !.resp = resp,
            !.pc = IF f.handler = "SSPIAuthHandler" THEN "returned" ELSE "server_token"]

\* the resubmission raised into frame f: caught at line 87, uncaught at 171
OpenRaises(f, exc) ==
  IF f.handler = "SSPIAuthHandler"
    THEN [f EXCEPT !.exc = exc, !.pc = "except"]
    ELSE [f EXCEPT !.exc = exc, !.pc = "raised"]

\* lines 86 and 171: the request is resubmitted through the host's opener;
\* the server answers with a final response, with an error the host raises,
\* or with another 401 that the host hands to http_error_401 again
Open ==
  /\ Running
  /\ Top.pc = "open"
  /\ LET f == [Top EXCEPT !.calls = Append(@, <<"open">>),
                          !.data = <<>>, !.response = None] IN
       \/ \E h \in FinalHeaders :
            SetTop(OpenReturns(f, [code |-> 200, headers |-> h]))
       \/ SetTop(OpenRaises(f, <<"HTTPError">>))
       \/ /\ Depth < MaxDepth
          /\ \E h \in Headers :
               stack' = [stack EXCEPT ![Depth] = [f EXCEPT !.pc = "in_open"]]
                          \o <<NewFrame(f.handler, h)>>
  /\ UNCHANGED << procVars, pc, opener, initVars, req, live >>

\* an invocation ends: its result goes to the host, which hands it to the
\* resubmitting invocation below it, or ends the request
Return ==
  /\ Running
  /\ Top.pc \in Terminal
  /\ IF Depth = 1
       THEN /\ stack' = <<>>
            /\ pc' = IF Top.pc = "exit" THEN "exited" ELSE "ready"
       ELSE /\ pc' = pc
            /\ LET f == stack[Depth - 1]
                   below == SubSeq(stack, 1, Depth - 2)
               IN CASE Top.pc = "returned" ->
                         stack' = below \o <<OpenReturns(f, Top.resp)>>
                    [] Top.pc = "not_handled" ->
                         \* the host's other 401 handlers answer, or none does
                         \/ \E h \in FinalHeaders :
                              stack' = below
                                \o <<OpenReturns(f, [code |-> 200, headers |-> h])>>
                         \/ stack' = below \o <<OpenRaises(f, <<"HTTPError">>)>>
                    [] Top.pc = "raised" ->
                         stack' = below \o <<OpenRaises(f, Top.exc)>>
                    [] Top.pc = "exit" ->
                         \* SystemExit is no Exception: line 87 does not catch it
                         stack' = below \o <<[f EXCEPT !.exc = <<"SystemExit">>,
                                                        !.pc = "exit"]>>
  /\ UNCHANGED << procVars, opener, initVars, req, live >>

(* --------------------- SSPIAuthHandler.http_error_401 ----------------- *)

\* line 81: socket.gethostbyname_ex(name)[0], the canonical name of the host
gethostbyname_ex(name) ==
  IF name = <<"hg.example.org">> THEN <<"hg01.example.org">> ELSE name

\* line 81: 'HTTP/%s@%s' % (canonical host, os.environ['USERDNSDOMAIN'])
TargetSpn(host) ==
  <<"HTTP/">> \o gethostbyname_ex(split(host, ":")[1]) \o <<"@", "EXAMPLE.ORG">>

\* line 81: the target name is resolved and ClientAuth constructed; the name
\* lookup, the environment lookup and the constructor can raise
ClientAuthNew ==
  /\ At("SSPIAuthHandler", "ClientAuth")
  /\ \/ /\ SetTop([Top EXCEPT !.ctx = Depth,
                              !.supported_schemes = <<>>,
                              !.calls = Append(@, <<"ClientAuth">> \o TargetSpn(req.host)),
                              !.pc = "authorize"])
        /\ live' = live \cup {Depth}
     \/ /\ SetTop([Top EXCEPT !.exc = <<"Exception">>, !.pc = "except"])
        /\ live' = live
  /\ UNCHANGED << procVars, pc, opener, initVars, req >>

\* lines 82-83: ca.authorize(None) gives the output buffer, or raises
Authorize ==
  /\ At("SSPIAuthHandler", "authorize")
  /\ LET f == [Top EXCEPT !.calls = Append(@, <<"authorize">>)] IN
       \/ \E data \in Tokens : SetTop([f EXCEPT !.data = data, !.pc = "add_header"])
       \/ SetTop([f EXCEPT !.exc = <<"Exception">>, !.pc = "except"])
  /\ UNCHANGED << procVars, pc, opener, initVars, req, live >>

\* line 84: encodebytes(data).decode('utf-8').replace("\012", "")
AuthKeepNewlines(data) == encodebytes(data)
Auth(data) == removeNewlines(encodebytes(data))

\* lines 84-85
SSPIAddHeader ==
  /\ At("SSPIAuthHandler", "add_header")
  /\ req' = [req EXCEPT !.Authorization = <<"Negotiate">> \o <<" ">> \o Auth(Top.data)]
  /\ SetTop([Top EXCEPT !.calls = Append(@, <<"add_header">>), !.pc = "open"])
  /\ UNCHANGED << procVars, pc, opener, initVars, live >>

\* line 91 and line 164: sys.version_info.major == 3
ExitsOnErrorNever(major) == FALSE
ExitsOnError(major) == major = 3

\* lines 87-94
SSPIExcept ==
  /\ At("SSPIAuthHandler", "except")
  /\ SetTop([Top EXCEPT !.calls = Append(@, <<"print", "Kerberos error">>),
                        !.pc = IF ExitsOnError(pyMajor) THEN "exit" ELSE "not_handled"])
  /\ UNCHANGED << procVars, pc, opener, initVars, req, live >>

(* ------------------- KerberosAuthHandler.http_error_401 --------------- *)

\* lines 150-157: authGSSClientInit("HTTP@host") gives a context for a
\* handshake of some number of legs, or raises GSSError outside the try
AuthGSSClientInit ==
  /\ At("KerberosAuthHandler", "authGSSClientInit")
  /\ LET f == [Top EXCEPT !.calls = Append(@, <<"authGSSClientInit", "HTTP@">>
                                                \o split(req.host, ":")[1])]
     IN \/ /\ \E n \in 1..MaxSteps :
                SetTop([f EXCEPT !.ctx = Depth, !.need = n, !.pc = "step"])
           /\ live' = live \cup {Depth}
        \/ /\ SetTop([f EXCEPT !.exc = <<"GSSError">>, !.pc = "raised"])
           /\ live' = live
  /\ UNCHANGED << procVars, pc, opener, initVars, req >>

\* line 159: the argument of the first authGSSClientStep
FirstStepInput(supported_schemes) == supported_schemes[1]

\* line 159: authGSSClientStep(context, supported_schemes[0]) is entered
AuthGSSClientStepBegin ==
  /\ At("KerberosAuthHandler", "step")
  /\ SetTop([Top EXCEPT
       !.calls = Append(@, <<"authGSSClientStep">>
                             \o FirstStepInput(Top.supported_schemes)),
       !.supported_schemes = <<>>,
       !.pc = "step_run"])
  /\ torn' = IF environ = Krb5ccname(geteuid) /\ \E u \in Threads : Writing(u)
               THEN torn \cup {"main"} ELSE torn
  /\ UNCHANGED << procVars, pc, opener, environ, cache, ipc, ilocal, req, live >>

\* line 159 returns, or raises GSSError into the handler of line 160
AuthGSSClientStepEnd ==
  /\ At("KerberosAuthHandler", "step_run")
  /\ \/ SetTop([Top EXCEPT !.steps = @ + 1, !.pc = "response"])
     \/ SetTop([Top EXCEPT !.steps = @ + 1, !.exc = <<"GSSError">>, !.pc = "gsserror"])
  /\ torn' = torn \ {"main"}
  /\ UNCHANGED << procVars, pc, opener, environ, cache, ipc, ilocal, req, live >>

\* lines 160-167
GSSExcept ==
  /\ At("KerberosAuthHandler", "gsserror")
  /\ SetTop([Top EXCEPT !.calls = Append(@, <<"print", "Kerberos GSS Error">>),
                        !.pc = IF ExitsOnError(pyMajor) THEN "exit" ELSE "not_handled"])
  /\ UNCHANGED << procVars, pc, opener, initVars, req, live >>

\* line 169
AuthGSSClientResponseThenOpen ==
  /\ At("KerberosAuthHandler", "response")
  /\ \E r \in GssResponses :
       SetTop([Top EXCEPT !.response = r,
                          !.calls = Append(@, <<"authGSSClientResponse">>),
                          !.pc = "open"])
  /\ UNCHANGED << procVars, pc, opener, initVars, req, live >>

AuthGSSClientResponse ==
  /\ At("KerberosAuthHandler", "response")
  /\ \E r \in GssResponses :
       SetTop([Top EXCEPT !.response = r,
                          !.calls = Append(@, <<"authGSSClientResponse">>),
                          !.pc = "add_header"])
  /\ UNCHANGED << procVars, pc, opener, initVars, req, live >>

\* line 170
KrbAddHeader ==
  /\ At("KerberosAuthHandler", "add_header")
  /\ req' = [req EXCEPT !.unredirected = <<"Negotiate", " ">> \o PyStr(Top.response)]
  /\ SetTop([Top EXCEPT !.calls = Append(@, <<"add_unredirected_header">>),
                        !.pc = "open"])
  /\ UNCHANGED << procVars, pc, opener, initVars, live >>

\* line 173: resp.info().get("WWW-Authenticate", "").split(",")[0].split()
ServerTokenWords(resp) == splitWs(split(headersGet(resp.headers), ",")[1])

\* line 173: the second word of the first challenge, IndexError without one
ServerToken ==
  /\ At("KerberosAuthHandler", "server_token")
  /\ LET words == ServerTokenWords(Top.resp) IN
       IF Len(words) >= 2
         THEN SetTop([Top EXCEPT !.server_token = words[2], !.pc = "verify"])
         ELSE SetTop([Top EXCEPT !.exc = <<"IndexError">>, !.pc = "raised"])
  /\ UNCHANGED << procVars, pc, opener, initVars, req, live >>

\* results authGSSClientStep can give: AUTH_GSS_COMPLETE 1, AUTH_GSS_CONTINUE 0,
\* AUTH_GSS_ERROR -1
StepResults == {-1, 0, 1}

\* line 174: authGSSClientStep(context, server_token) returns a result, or
\* raises GSSError, which nothing catches
VerifyStep ==
  /\ At("KerberosAuthHandler", "verify")
  /\ LET f == [Top EXCEPT !.steps = @ + 1,
                          !.calls = Append(@, <<"authGSSClientStep">> \o Top.server_token)]
     IN \/ \E r \in StepResults :
             SetTop([f EXCEPT !.server_auth_result = <<r>>, !.pc = "result"])
        \/ SetTop([f EXCEPT !.exc = <<"GSSError">>, !.pc = "raised"])
  /\ UNCHANGED << procVars, pc, opener, initVars, req, live >>

\* line 175: server_auth_result < 1
VerifyFailedOnlyNegative(server_auth_result) == server_auth_result < 0
VerifyFailed(server_auth_result) == server_auth_result < 1

\* lines 175-177
CheckResult ==
  /\ At("KerberosAuthHandler", "result")
  /\ IF VerifyFailed(Top.server_auth_result[1])
       THEN SetTop([Top EXCEPT !.exc = <<"Exception", "Server authentication error">>,
                               !.pc = "raised"])
       ELSE SetTop([Top EXCEPT !.pc = "returned"])
  /\ UNCHANGED << procVars, pc, opener, initVars, req, live >>

(* --------------------------- specifications --------------------------- *)

\* the process starts: nothing imported, nothing registered
StartInit ==
  /\ pyMajor \in {2, 3}
  /\ sspiAvail \in BOOLEAN
  /\ krbAvail \in BOOLEAN
  /\ globalNames = {}
  /\ handlerfuncs = <<>>
  /\ pc = "import"
  /\ opener = FALSE
  /\ environ \in EnvAtStart
  /\ cache \in BOOLEAN
  /\ torn = {}
  /\ ipc = [t \in Threads |-> "none"]
  /\ ilocal = [t \in Threads |-> NoLocals]
  /\ stack = <<>>
  /\ req = NewRequest
  /\ live = {}

\* the state after import, uisetup and the construction of the one registered
\* handler, on a host without a keytab configuration (__init__ was a no-op)
Init ==
  /\ pyMajor \in {2, 3}
  /\ \E h \in {"SSPIAuthHandler", "KerberosAuthHandler"} :
       /\ handlerfuncs = <<h>>
       /\ sspiAvail = (h = "SSPIAuthHandler")
       /\ krbAvail = (h = "KerberosAuthHandler")
       /\ globalNames = IF h = "SSPIAuthHandler" THEN {"ClientAuth", "socket"}
                        ELSE {"kerberos"}
  /\ pc = "ready"
  /\ opener = TRUE
  /\ environ = <<>>
  /\ cache = FALSE
  /\ torn = {}
  /\ ipc = [t \in Threads |-> "none"]
  /\ ilocal = [t \in Threads |-> NoLocals]
  /\ stack = <<>>
  /\ req = NewRequest
  /\ live = {}

\* the state after import and uisetup on a host with the kerberos module
ThreadsInit ==
  /\ pyMajor = 3
  /\ sspiAvail = FALSE
  /\ krbAvail = TRUE
  /\ globalNames = {"kerberos"}
  /\ handlerfuncs = <<"KerberosAuthHandler">>
  /\ pc = "ready"
  /\ opener = FALSE
  /\ environ \in EnvAtStart
  /\ cache \in BOOLEAN
  /\ torn = {}
  /\ ipc = [t \in Threads |-> "none"]
  /\ ilocal = [t \in Threads |-> NoLocals]
  /\ stack = <<>>
  /\ req = NewRequest
  /\ live = {}

\* the steps of KerberosAuthHandler.__init__ on thread t
InitStep(t) ==
  \/ IsfileHgrc(t) \/ ReadHgrc(t) \/ CheckKeytab(t) \/ SetEnv(t)
  \/ KlistBegin(t) \/ KlistEnd(t) \/ KlistCheck(t)
  \/ KinitBegin(t) \/ KinitEnd(t) \/ KinitCheck(t) \/ InitReturn(t)

Startup == Import \/ uisetup \/ SSPIInit \/ InitBegin

Challenge == Http401 \/ ParseSchemes \/ SchemeCheck

Sspi == ClientAuthNew \/ Authorize \/ SSPIAddHeader \/ SSPIExcept

GssNegotiate ==
  AuthGSSClientInit \/ AuthGSSClientStepBegin \/ AuthGSSClientStepEnd \/ GSSExcept

GssVerify ==
  AuthGSSClientResponse \/ KrbAddHeader \/ ServerToken \/ VerifyStep \/ CheckResult

\* the handling of 401 responses by the registered handler
Next == Challenge \/ Sspi \/ GssNegotiate \/ GssVerify \/ Open \/ Return

Spec == Init /\ [][Next]_vars

\* the start of the process and the construction of handlers, one thread
StartNext == Startup \/ InitStep("main") \/ TicketExpires

SpecStartup == StartInit /\ [][StartNext]_vars

\* two threads of the host construct KerberosAuthHandler objects, and the main
\* thread begins handshakes, up to the first step of the security library
ThreadsNext ==
  \/ InitBegin \/ WorkerInitBegin \/ InitStep("main") \/ InitStep("worker")
  \/ Challenge \/ GssNegotiate \/ Return

SpecThreads == ThreadsInit /\ [][ThreadsNext]_vars

(* ------------------------- reading the effects ------------------------ *)

\* the calls of a frame named name, and how many there are
Has(calls, name) == \E i \in 1..Len(calls) : calls[i][1] = name
Count(calls, name) == Cardinality({i \in 1..Len(calls) : calls[i][1] = name})

\* the calls into the platform security library
LibCalls ==
  { "ClientAuth", "authorize",
    "authGSSClientInit", "authGSSClientStep", "authGSSClientResponse" }

\* the calls that attach the Authorization header
HeaderCalls == { "add_header", "add_unredirected_header" }

\* the word Negotiate occurs nowhere in the WWW-Authenticate header
LacksNegotiate(headers) == "Negotiate" \notin Range(headersGet(headers))

(* -------------------------------- C1 ---------------------------------- *)

\* C1: for a 401 response whose WWW-Authenticate header does not contain the
\* token Negotiate (absent, empty, or Basic only), the scheme check of either
\* handler ends the invocation with "not handled": the frame has made no
\* security-library call and no resubmission, holds no context, and the
\* request is untouched.
C1_SkipWithoutNegotiate ==
  [][ (Running /\ Top.pc = "check" /\ LacksNegotiate(Top.headers))
        => /\ Depth' = Depth
           /\ Top'.pc = "not_handled"
           /\ \A i \in 1..Len(Top'.calls) :
                Top'.calls[i][1] \notin LibCalls \cup HeaderCalls \cup {"open"}
           /\ Top'.ctx = 0
           /\ live' = live
           /\ req' = req ]_vars

\* a handler has answered "not handled" to a 401 advertising Basic only
C1_Witness ==
  /\ Running
  /\ Top.pc = "not_handled"
  /\ Top.headers.present
  /\ Top.headers.value = <<"Basic", " ", "realm=hg">>
  /\ ~Has(Top.calls, "open")

(* -------------------------------- C2 ---------------------------------- *)

\* the mutual-authentication check of frame f has not succeeded: no server
\* token to verify, no result of the verifying step, or a result below 1
VerificationFailed(f) ==
  \/ f.server_token = None
  \/ f.server_auth_result = <<>>
  \/ f.server_auth_result[1] < 1

\* C2: when the resubmission of KerberosAuthHandler.http_error_401 returned
\* a response and the mutual-authentication check of it fails (no server
\* token, the verifying step raises, or its result is below 1), the
\* invocation ends by raising and never returns the response, whatever the
\* status of the response.
C2_FailedVerificationRaises ==
  (Running /\ Top.handler = "KerberosAuthHandler" /\ Top.pc \in Terminal
     /\ Top.resp # NoResp /\ VerificationFailed(Top))
    => (Top.pc = "raised" /\ Top.exc # None)

\* the resubmission returned 200 and the verifying step answered "continue"
C2_Witness ==
  /\ Running
  /\ Top.handler = "KerberosAuthHandler"
  /\ Top.pc = "raised"
  /\ Top.resp.code = 200
  /\ Top.server_auth_result = <<0>>

(* -------------------------------- C3 ---------------------------------- *)

\* C3: in both handlers, a response that http_error_401 returns as its result
\* has been verified by a successful verifying step on the first token of the
\* response's WWW-Authenticate header.
C3_ReturnedIsVerified ==
  (Running /\ Top.pc = "returned")
    => /\ Len(ServerTokenWords(Top.resp)) >= 2
       /\ Top.server_token = ServerTokenWords(Top.resp)[2]
       /\ Top.server_auth_result # <<>>
       /\ Top.server_auth_result[1] >= 1
       /\ Top.calls[Len(Top.calls)] = <<"authGSSClientStep">> \o Top.server_token

(* -------------------------------- C4 ---------------------------------- *)

\* the tokens a server supplies to continue a handshake
ContinuationTokens == { <<>>, <<"YIIsrv">> }

\* C4: when KerberosAuthHandler.http_error_401 resubmits the request, it has
\* called authGSSClientStep as many times as the handshake has legs, each time
\* with a server-supplied continuation token as input.
C4_StepsBeforeResubmit ==
  At("KerberosAuthHandler", "open")
    => /\ Top.steps = Top.need
       /\ Count(Top.calls, "authGSSClientStep") = Top.need
       /\ \A i \in 1..Len(Top.calls) :
            Top.calls[i][1] = "authGSSClientStep"
              => Tail(Top.calls[i]) \in ContinuationTokens

(* -------------------------------- C5 ---------------------------------- *)

\* base64 read back: the value of a character, four characters to up to three
\* bytes, a text to its bytes
B64Value(c) == IF c = "=" THEN 0 ELSE CHOOSE v \in 0..63 : B64Alphabet[v + 1] = c

B64DecodeGroup(g) ==
  LET n == B64Value(g[1]) * 262144 + B64Value(g[2]) * 4096
             + B64Value(g[3]) * 64 + B64Value(g[4])
  IN  IF g[3] = "=" THEN <<n \div 65536>>
      ELSE IF g[4] = "=" THEN <<n \div 65536, (n \div 256) % 256>>
      ELSE <<n \div 65536, (n \div 256) % 256, n % 256>>

RECURSIVE B64Decode(_)
B64Decode(s) ==
  IF Len(s) < 4 THEN <<>>
  ELSE B64DecodeGroup(SubSeq(s, 1, 4)) \o B64Decode(SubSeq(s, 5, Len(s)))

\* C5: in SSPIAuthHandler.http_error_401, the Authorization header of the
\* request about to be resubmitted is "Negotiate ", followed by the base64
\* encoding of the provider's output token and nothing else (no line break),
\* for every output token; an invocation that returns a response has
\* resubmitted the request exactly once.
C5_OneResubmissionExactHeader ==
  /\ At("SSPIAuthHandler", "open")
       => /\ req.Authorization = <<"Negotiate", " ">> \o B64Core(Top.data)
          /\ Range(SubSeq(req.Authorization, 3, Len(req.Authorization)))
                \subseteq Range(B64Alphabet) \cup {"="}
          /\ (Len(req.Authorization) - 2) % 4 = 0
          /\ B64Decode(SubSeq(req.Authorization, 3, Len(req.Authorization))) = Top.data
          /\ "\n" \notin Range(req.Authorization)
          /\ ~Has(Top.calls, "open")
  /\ At("SSPIAuthHandler", "returned") => Count(Top.calls, "open") = 1

\* a response was returned for a token longer than one line of base64
C5_Witness ==
  /\ At("SSPIAuthHandler", "returned")
  /\ Depth = 1
  /\ Len(req.Authorization) > 2 + 4 * (MAXBINSIZE \div 3)

(* -------------------------------- C6 ---------------------------------- *)

\* the negotiating step of frame f failed: authGSSClientStep of line 159
\* raised GSSError, or ca.authorize of line 82 raised
NegotiationStepFailed(f) ==
  \/ /\ f.handler = "KerberosAuthHandler"
     /\ f.exc = <<"GSSError">>
     /\ Has(f.calls, "authGSSClientStep")
     /\ f.resp = NoResp
     /\ ~Has(f.calls, "open")
  \/ /\ f.handler = "SSPIAuthHandler"
     /\ f.exc = <<"Exception">>
     /\ Has(f.calls, "authorize")
     /\ ~Has(f.calls, "add_header")

\* C6: when the negotiating step fails, the invocation logs the error and
\* ends with "not handled", except under Python 3, where it ends the process;
\* in both cases it has attached no Authorization header and has not
\* resubmitted the request.
C6_StepFailureFallsBack ==
  (Running /\ Top.pc \in Terminal /\ NegotiationStepFailed(Top))
    => /\ Top.pc = IF pyMajor = 3 THEN "exit" ELSE "not_handled"
       /\ Has(Top.calls, "print")
       /\ \A i \in 1..Len(Top.calls) : Top.calls[i][1] \notin HeaderCalls \cup {"open"}
       /\ Depth = 1 => (req.Authorization = None /\ req.unredirected = None)

\* under Python 2 a GSSError of the first step ended in "not handled"
C6_Witness ==
  /\ At("KerberosAuthHandler", "not_handled")
  /\ pyMajor = 2
  /\ Top.exc = <<"GSSError">>
  /\ Has(Top.calls, "authGSSClientStep")

(* -------------------------------- C7 ---------------------------------- *)

\* C7: no thread's ticket-listing or handshake read of the credential cache
\* overlaps another thread's ticket-initialization rewrite of it.
C7_CacheMutualExclusion ==
  \A t \in Threads : \A u \in Threads \ {t} : ~(Writing(t) /\ ReadsCache(u))

(* -------------------------------- C8 ---------------------------------- *)

\* C8: an invocation that ends, on any exit path, holds no security context
\* that has not been released.
C8_ContextReleasedAtExit ==
  (Running /\ Top.pc \in Terminal) => (Top.ctx = 0 \/ Top.ctx \notin live)

(* -------------------------------- C9 ---------------------------------- *)

Unset(v) == v = None \/ v = <<>>

\* the keytab configuration seen by an __init__ with locals l is not usable
NotConfigured(l) ==
  ~l.hgrcIsFile \/ Unset(l.keytab) \/ Unset(l.principal) \/ ~l.keytabIsFile

\* C9: when the config file is absent, the keytab path or the principal is
\* unset, or the keytab file does not exist, KerberosAuthHandler.__init__
\* leaves KRB5CCNAME as it found it and runs neither klist nor kinit.
C9_NoKeytabNoEffect ==
  \A t \in Threads :
    (ipc[t] \in {"check", "done"} /\ NotConfigured(ilocal[t]))
      => /\ environ = ilocal[t].envAtEntry
         /\ ilocal[t].effects = <<>>
         /\ ilocal[t].klist = <<>>
         /\ ilocal[t].kinit = <<>>

\* keytab and principal are configured, and the keytab file does not exist
C9_Witness ==
  /\ ipc["main"] = "done"
  /\ ilocal["main"].hgrcIsFile
  /\ ilocal["main"].keytab = <<"/home/hg", "/hg.keytab">>
  /\ ilocal["main"].principal = <<"hg@EXAMPLE.ORG">>
  /\ ~ilocal["main"].keytabIsFile

(* -------------------------------- C10 --------------------------------- *)

\* C10: KerberosAuthHandler.__init__ never runs kinit in an invocation whose
\* klist reported a valid ticket (status 0); so a second construction, made
\* while the ticket is still valid, runs no kinit.
C10_ValidTicketNoKinit ==
  \A t \in Threads :
    (ilocal[t].klist = <<0>>)
      => /\ ilocal[t].kinit = <<>>
         /\ ~Has(ilocal[t].effects, "kinit")
         /\ ipc[t] \in {"klist_rc", "done"}

\* a later construction (KRB5CCNAME was already the fixed cache when it began)
\* found a valid ticket and returned
C10_Witness ==
  /\ ipc["main"] = "done"
  /\ ilocal["main"].envAtEntry = Krb5ccname(geteuid)
  /\ ilocal["main"].klist = <<0>>
  /\ cache

(* -------------------------------- C11 --------------------------------- *)

\* the effects of an __init__ with locals l are, in this order: KRB5CCNAME set
\* to the cache path of the effective user id, klist on that path, and one
\* kinit with that path, the configured keytab and the configured principal
ProvisioningOrder(l) ==
  /\ Len(l.effects) >= 4
  /\ l.effects[1] = <<"environ">> \o Krb5ccname(geteuid)
  /\ l.effects[2] = <<"klist">> \o Krb5ccname(geteuid)
  /\ l.effects[4] = <<"kinit">> \o Krb5ccname(geteuid) \o l.keytab \o l.principal
  /\ Count(l.effects, "environ") = 1
  /\ Count(l.effects, "klist") = 1
  /\ Count(l.effects, "kinit") = 1
  /\ environ = Krb5ccname(geteuid)

\* C11: with a configured existing keytab and principal, an __init__ whose
\* klist reported no valid ticket has, when it returns, set KRB5CCNAME to the
\* cache path of the effective user id, then run klist on that path, then run
\* kinit exactly once with that path, the keytab and the principal; when kinit
\* succeeded its last log line is
\* "Successfully obtained Kerberos ticket from keytab".
C11_ProvisioningOrderAndLog ==
  \A t \in Threads :
    (ipc[t] = "done" /\ ilocal[t].klist # <<>> /\ ilocal[t].klist[1] # 0)
      => /\ ProvisioningOrder(ilocal[t])
         /\ ilocal[t].kinit = <<0>>
              => ilocal[t].effects[Len(ilocal[t].effects)]
                   = <<"print", "Successfully obtained Kerberos ticket from keytab">>

\* the same without the wording of the log line: the order of the effects
C11_OrderOnly ==
  \A t \in Threads :
    (ipc[t] = "done" /\ ilocal[t].klist # <<>> /\ ilocal[t].klist[1] # 0)
      => /\ ProvisioningOrder(ilocal[t])
         /\ ilocal[t].kinit = <<0>> => Count(ilocal[t].effects, "print") = 2

(* -------------------------------- C12 --------------------------------- *)

\* C12: KerberosAuthHandler.__init__ never raises into its caller, whatever
\* the outcome of its steps (config unreadable, klist reporting no ticket or
\* failing to run, kinit returning failure or failing to run): it returns
\* normally, so no __init__ is ever at the point of raising.
C12_ProvisioningNeverRaises ==
  \A t \in Threads : ipc[t] # "raised"

(* -------------------------------- C13 --------------------------------- *)

\* import and uisetup are over and the process goes on
SetupDone == pc \notin {"import", "uisetup", "exited"}

\* C13: after module import and uisetup exactly one of SSPIAuthHandler and
\* KerberosAuthHandler is in the host's handler list, never both, for every
\* combination of availability of the two platform libraries (SSPI when its
\* library is available, Kerberos otherwise); when neither library is
\* available the process exits at import and no handler is registered.
C13_ExclusiveBackend ==
  /\ ~(Registered("SSPIAuthHandler") /\ Registered("KerberosAuthHandler"))
  /\ SetupDone
       => /\ Len(handlerfuncs) = 1
          /\ Registered("SSPIAuthHandler") = sspiAvail
          /\ Registered("KerberosAuthHandler") = (~sspiAvail /\ krbAvail)
  /\ (~sspiAvail /\ ~krbAvail /\ pc # "import")
       => (pc = "exited" /\ handlerfuncs = <<>>)

\* both libraries are available, and uisetup has registered the SSPI handler
C13_Witness ==
  /\ SetupDone
  /\ sspiAvail
  /\ krbAvail
  /\ handlerfuncs = <<"SSPIAuthHandler">>

(* -------------------------------- C14 --------------------------------- *)

\* the resubmissions made so far by the invocations handling the request
Resubmissions ==
  UNION { {<<i, j>> : j \in {k \in 1..Len(stack[i].calls) : stack[i].calls[k][1] = "open"}}
            : i \in 1..Depth }

\* C14: for one original request the handler resubmits at most once in
\* total, also when the server answers the resubmitted request with another
\* 401 that advertises Negotiate.
C14_AtMostOneResubmission ==
  Running => Cardinality(Resubmissions) <= 1

(* -------------------------------- C15 --------------------------------- *)

\* the scheme names of the challenges of a WWW-Authenticate header: the
\* first word of each comma-separated challenge
AdvertisedSchemes(headers) ==
  LET challenges == split(headersGet(headers), ",") IN
    { splitWs(challenges[i])[1] :
        i \in {k \in 1..Len(challenges) : splitWs(challenges[k]) # <<>>} }

\* C15: http_error_401 goes on to negotiate if and only if the scheme
\* Negotiate is among the challenges of the WWW-Authenticate header, whatever
\* its position and whether or not a challenge carries parameters or a token
\* after its scheme name; otherwise it ends with "not handled".
C15_NegotiateIffAdvertised ==
  [][ (Running /\ Top.pc = "check")
        => /\ Depth' = Depth
           /\ Top'.pc \in {"not_handled", "ClientAuth", "authGSSClientInit"}
           /\ (Top'.pc # "not_handled")
                <=> (<<"Negotiate">> \in AdvertisedSchemes(Top.headers)) ]_vars

(* -------------------------------- C16 --------------------------------- *)

\* initContext; the calls that give the provider's output token
InitCalls == { "ClientAuth", "authGSSClientInit" }
OutputCalls == { "authorize", "authGSSClientResponse" }

\* the log line of the Skipped outcome, and those of the Failed outcome
SkipPrint == <<"print", "Server does not support Kerberos authentication">>
ErrorPrints == { <<"print", "Kerberos error">>, <<"print", "Kerberos GSS Error">> }

\* the positions in the calls c of the calls named in names
Pos(c, names) == {i \in 1..Len(c) : c[i][1] \in names}

\* the events of the invocation with frame f have occurred in the order
\* scheme check, initContext, output token, header, resubmission, verification
FrameOrdered(f) ==
  LET c == f.calls
      steps == Pos(c, {"authGSSClientStep"})
  IN
  \* no initContext (nor any later event) before the scheme check has passed
  /\ Pos(c, LibCalls \cup HeaderCalls \cup {"open"}) # {}
       => (f.pc \notin {"entry", "check"} /\ \A i \in 1..Len(c) : c[i] # SkipPrint)
  /\ \A j \in Pos(c, (LibCalls \ InitCalls) \cup HeaderCalls \cup {"open"}) :
       \E i \in Pos(c, InitCalls) : i < j
  \* no resubmission before an output token was obtained and then attached
  /\ \A j \in Pos(c, {"open"}) :
       \E i \in Pos(c, OutputCalls) : \E h \in Pos(c, HeaderCalls) : i < h /\ h < j
  \* no verifying step before the resubmission was made and has returned
  /\ \A j \in steps :
       (\E i \in steps : i < j)
         => ((\E o \in Pos(c, {"open"}) : o < j) /\ f.resp # NoResp)
  /\ (f.server_token # None \/ f.server_auth_result # <<>>) => f.resp # NoResp
  \* Skipped and Failed are logged last: nothing is called after them
  /\ \A i \in Pos(c, {"print"}) : i = Len(c)
  /\ (f.pc \in {"not_handled", "exit"} /\ f.exc # <<"SystemExit">>)
       => (c # <<>> /\ c[Len(c)][1] = "print")
  /\ (c # <<>> /\ c[Len(c)] = SkipPrint) => f.pc = "not_handled"
  /\ (c # <<>> /\ c[Len(c)] \in ErrorPrints) => f.pc \in {"not_handled", "exit"}
  \* Verified (GSS): the verifying step was the last event
  /\ (f.pc = "returned" /\ f.handler = "KerberosAuthHandler")
       => (c[Len(c)][1] = "authGSSClientStep" /\ Cardinality(steps) = 2)
  /\ Cardinality(Pos(c, {"open"})) <= 1

\* C16: within one http_error_401 invocation the events occur only in the
\* order of the state machine: initContext is never called before the scheme
\* check passed, the request is never resubmitted before the provider's
\* output token was obtained and attached as the Authorization header, the
\* verifying step is never called before the resubmission returned, and
\* nothing is called after the Verified, Failed or Skipped outcome.
C16_EventOrder ==
  Running => \A i \in 1..Depth : FrameOrdered(stack[i])

\* a GSS invocation has gone through the whole state machine to Verified
C16_Witness ==
  /\ At("KerberosAuthHandler", "returned")
  /\ Depth = 1
  /\ [i \in 1..Len(Top.calls) |-> Top.calls[i][1]]
       = << "authGSSClientInit", "authGSSClientStep", "authGSSClientResponse",
            "add_unredirected_header", "open", "authGSSClientStep" >>

(* -------------------------------- C17 --------------------------------- *)

\* C17: whenever http_error_401 returns "not handled" (None), in either
\* handler, the request is exactly as the invocation received it: the
\* invocation has added no Authorization header, redirected or unredirected,
\* and the request of an outermost invocation is the one the host passed in.
C17_NotHandledLeavesRequest ==
  (Running /\ Top.pc = "not_handled")
    => /\ \A i \in 1..Len(Top.calls) : Top.calls[i][1] \notin HeaderCalls
       /\ Depth = 1 => req = NewRequest

====
